---- MODULE Spec2Model ----
(***************************************************************************)
(* Model of code/table_1.ipynb (Augenblick and Rabin 2019, Table 1): the   *)
(* maximum-likelihood pipeline read -> keep sample -> clean -> negloglike  *)
(* -> Nelder-Mead -> Hessian / per-observation gradients -> cluster sums   *)
(* -> sandwich variance -> z-tests -> Table_1.                             *)
(*                                                                         *)
(* Real numbers are fixed-point integers: parameters, wages, predicted     *)
(* choices and z-scores count tenths (Scale), probabilities count units of *)
(* 1.0e-4 (PUnit), the epsilon of the guard in negloglike.  The float NaN  *)
(* and +inf are the two sentinels NaN and Inf.  The quantisation keeps the *)
(* three facts the notebook's guards depend on: a value is exactly 0 only  *)
(* where float64 underflows to 0.0, exactly 1 only where float64 rounds to *)
(* 1.0, and NaN exactly where numpy / scipy return nan.                    *)
(***************************************************************************)
EXTENDS Integers, Sequences, FiniteSets, TLC

\* ------------------------------------------------------------ numbers ----

\* One unit of a real quantity is 1/Scale.
Scale == 10

\* One unit of a probability is 1/PUnit = 1.0e-4.
PUnit == 10000

NaN == 0 - 2^30
Inf == 2^30

IsFinite(v) == v # NaN /\ v # Inf

Abs(v) == IF v < 0 THEN 0 - v ELSE v

Max(a, b) == IF a < b THEN b ELSE a

\* float addition, subtraction and multiplication: nan is absorbing (also
\* 0 * nan = nan), +inf is absorbing among the non-nan values the model meets.
Add(a, b) ==
    IF a = NaN \/ b = NaN THEN NaN
    ELSE IF a = Inf \/ b = Inf THEN Inf
    ELSE a + b

Sub(a, b) ==
    IF a = NaN \/ b = NaN THEN NaN
    ELSE a - b

\* the sum of the first n elements of s
RECURSIVE SumTo(_, _)
SumTo(s, n) == IF n = 0 THEN 0 ELSE Add(s[n], SumTo(s, n - 1))

\* product of a plain number (an indicator, a count, a matrix entry) and a
\* float
Mul(n, v) ==
    IF n = NaN \/ v = NaN THEN NaN
    ELSE n * v

\* product of two fixed-point reals
FMul(a, b) ==
    IF a = NaN \/ b = NaN THEN NaN
    ELSE (a * b) \div Scale

\* b ** n for a whole exponent n >= 0 (numpy: x ** 0 = 1, also for x = 0)
RECURSIVE IPow(_, _)
IPow(b, n) == IF n = 0 THEN 1 ELSE b * IPow(b, n - 1)

RECURSIVE FPowInt(_, _)
FPowInt(b, n) == IF n = 0 THEN Scale ELSE FMul(b, FPowInt(b, n - 1))

RECURSIVE Gcd(_, _)
Gcd(a, b) == IF b = 0 THEN a ELSE Gcd(b, a % b)

\* m ** q <= n, for m, n >= 0, without leaving the machine integers
RECURSIVE PowLeq(_, _, _)
PowLeq(m, q, n) ==
    IF q = 0 THEN 1 <= n
    ELSE IF m = 0 THEN TRUE
    ELSE PowLeq(m, q - 1, n \div m)

\* floor of the q-th root of n >= 0, one binary digit at a time: r is the
\* root so far, bit the digit to settle
RECURSIVE RootFrom(_, _, _, _)
RootFrom(r, bit, q, n) ==
    IF bit = 0 THEN r
    ELSE IF PowLeq(r + bit, q, n) THEN RootFrom(r + bit, bit \div 2, q, n)
    ELSE RootFrom(r, bit \div 2, q, n)

IRoot(q, n) == RootFrom(0, 2^15, q, n)

\* base ** (1 / (gamma - 1)), line 255.  The exponent is the fraction
\* Scale / (gamma - Scale) = p / q in lowest terms.  numpy returns nan for a
\* negative base under a non-integer exponent.  The model's parameter points
\* keep gamma > 1 (the CASE has no other branch).
FracPow(base, gamma) ==
    LET d == gamma - Scale
        g == Gcd(Scale, d)
        p == Scale \div g
        q == d \div g
    IN  CASE base = NaN -> NaN
          [] base # NaN /\ d > 0 /\ q = 1 -> FPowInt(base, p)
          [] base # NaN /\ d > 0 /\ q > 1 /\ base < 0 -> NaN
          [] base # NaN /\ d > 0 /\ q > 1 /\ base >= 0 ->
                IRoot(q, FPowInt(base, p) * IPow(Scale, q - 1))

\* floor(z) of a fixed-point z, in whole standard deviations
Whole(z) == z \div Scale

\* scipy norm.cdf(z) in units of 1.0e-4: a staircase through the values of
\* Phi at whole z.  float64 gives exactly 0.0 below about -38.5, exactly 1.0
\* from about 8.3 on, and a value strictly between 0 and 1 elsewhere.
norm_cdf(z) ==
    CASE z = NaN -> NaN
      [] z # NaN /\ 10 * z <= 0 - 385 * Scale -> 0
      [] z # NaN /\ 10 * z > 0 - 385 * Scale /\ Whole(z) <= 0 - 4 -> 1
      [] z # NaN /\ Whole(z) = 0 - 3 -> 13
      [] z # NaN /\ Whole(z) = 0 - 2 -> 228
      [] z # NaN /\ Whole(z) = 0 - 1 -> 1587
      [] z # NaN /\ Whole(z) = 0 -> 5000
      [] z # NaN /\ Whole(z) = 1 -> 8413
      [] z # NaN /\ Whole(z) = 2 -> 9772
      [] z # NaN /\ Whole(z) = 3 -> 9987
      [] z # NaN /\ Whole(z) >= 4 /\ 10 * z < 83 * Scale -> PUnit - 1
      [] z # NaN /\ 10 * z >= 83 * Scale -> PUnit

\* the standard normal density at |z|, in units of 1.0e-4; float64 gives
\* exactly 0.0 from about |z| = 38.6 on
std_pdf(z) ==
    CASE 10 * Abs(z) >= 386 * Scale -> 0
      [] 10 * Abs(z) < 386 * Scale /\ Whole(Abs(z)) >= 4 -> 1
      [] Whole(Abs(z)) = 3 -> 44
      [] Whole(Abs(z)) = 2 -> 540
      [] Whole(Abs(z)) = 1 -> 2420
      [] Whole(Abs(z)) = 0 -> 3989

\* a / b of two floats, as numpy divides: x / 0.0 is nan for x = 0 and an
\* infinity of the sign of x otherwise; a quotient beyond the saturation
\* points of norm_cdf stands for the infinity.
FQuot(a, b) ==
    CASE a = NaN \/ b = NaN -> NaN
      [] a # NaN /\ b = 0 /\ a = 0 -> NaN
      [] a # NaN /\ b = 0 /\ a > 0 -> 100 * Scale
      [] a # NaN /\ b = 0 /\ a < 0 -> 0 - 100 * Scale
      [] a # NaN /\ b # NaN /\ b > 0 -> (a * Scale) \div b
      [] a # NaN /\ b # NaN /\ b < 0 -> ((0 - a) * Scale) \div (0 - b)

\* scipy norm.pdf(x, loc, scale): nan for scale <= 0 or a nan argument,
\* std_pdf((x - loc) / scale) / scale otherwise; a positive density stays
\* positive.
norm_pdf(x, loc, scale) ==
    IF x = NaN \/ loc = NaN \/ scale <= 0 THEN NaN
    ELSE LET f == std_pdf(FQuot(x - loc, scale))
         IN  IF f = 0 THEN 0 ELSE Max(1, (f * Scale) \div scale)

\* the number of times p > 0 must be doubled to reach 1.0, k or more
RECURSIVE HalvingsFrom(_, _)
HalvingsFrom(p, k) == IF p * 2^k >= PUnit THEN k ELSE HalvingsFrom(p, k + 1)

Halvings(p) == HalvingsFrom(p, 0)

\* - anp.log(p) in tenths (ln 2 = 0.7 per halving): +inf at p = 0, nan at nan
NegLog(p) ==
    CASE p = NaN -> NaN
      [] p # NaN /\ p < 0 -> NaN
      [] p = 0 -> Inf
      [] p > 0 -> 7 * Halvings(p)

\* ---------------------------------------------------------- parameters ----

\* the starting values, lines 301-307, in tenths
beta_init == 8
betahat_init == 10
delta_init == 10
gamma_init == 20
phi_init == 5000
alpha_init == 70
sigma_init == 400

\* par_init = anp.array([beta_init, ..., sigma_init]), line 309
par_init ==
    <<beta_init, betahat_init, delta_init, gamma_init, phi_init, alpha_init,
      sigma_init>>

\* the names in the order the array literal of line 309 lists them
par_init_names ==
    <<"beta", "betahat", "delta", "gamma", "phi", "alpha", "sigma">>

\* beta, betahat, delta, gamma, phi, alpha, sigma = params, line 251: the
\* unpacking raises ValueError unless params has exactly these seven elements
UnpackNames ==
    <<"beta", "betahat", "delta", "gamma", "phi", "alpha", "sigma">>

PositionOf(names, nm) == CHOOSE i \in 1..Len(names) : names[i] = nm

\* an unpacking in which phi and alpha change places
UnpackSwapped(params) ==
    [beta |-> params[1], betahat |-> params[2], delta |-> params[3],
     gamma |-> params[4], phi |-> params[6], alpha |-> params[5],
     sigma |-> params[7]]

\* the unpacking of line 251: the i-th name is bound to the i-th element
Unpack(params) ==
    [beta |-> params[1], betahat |-> params[2], delta |-> params[3],
     gamma |-> params[4], phi |-> params[5], alpha |-> params[6],
     sigma |-> params[7]]

\* parameters_name, lines 344-352: each label with the Greek letter it ends in
parameters_name ==
    << [label |-> "Present Bias", symbol |-> "beta"],
       [label |-> "Naive Pres. Bias", symbol |-> "beta_h"],
       [label |-> "Discount Factor", symbol |-> "delta"],
       [label |-> "Cost Curvature", symbol |-> "gamma"],
       [label |-> "Cost Slope", symbol |-> "phi"],
       [label |-> "Proj Task Reduction", symbol |-> "alpha"],
       [label |-> "Sd of error term", symbol |-> "sigma"] >>

\* options={'maxiter': 1500}, line 318
maxiter == 1500

\* ---------------------------------------------------------------- data ----

\* columns, line 313: the columns handed to negloglike, in its argument order
columns ==
    <<"netdistance", "wage", "today", "prediction", "pb", "effort",
      "ind_effort10", "ind_effort110">>

\* keep, line 131
keep ==
    <<"wid", "netdistance", "wage", "today", "prediction", "pb", "effort",
      "ind_effort10", "ind_effort110">>

\* (dt['effort'] == 10).astype(int), line 86
ind_effort10_of(effort) == IF effort = 10 THEN 1 ELSE 0

\* the upper dummy testing the lower boundary
ind_effort110_copied(effort) == IF effort = 10 THEN 1 ELSE 0

\* (dt['effort'] == 110).astype(int), line 87
ind_effort110_of(effort) == IF effort = 110 THEN 1 ELSE 0

\* dt['workdone1'] / 10, line 85 (workdone1 is 0 or 10)
pb_of(workdone1) == workdone1 \div 10

\* cell 6 on one row: the three dummy columns are added (index is the row's
\* label, not a column)
WithDummies(r) ==
    [index |-> r.index, wid |-> r.wid, netdistance |-> r.netdistance, wage |-> r.wage,
     today |-> r.today, prediction |-> r.prediction,
     workdone1 |-> r.workdone1, effort |-> r.effort,
     bonusoffered |-> r.bonusoffered,
     pb |-> pb_of(r.workdone1),
     ind_effort10 |-> ind_effort10_of(r.effort),
     ind_effort110 |-> ind_effort110_of(r.effort)]

\* dt[keep], line 132, on one row
KeepColumns(r) ==
    [index |-> r.index, wid |-> r.wid, netdistance |-> r.netdistance, wage |-> r.wage,
     today |-> r.today, prediction |-> r.prediction, pb |-> r.pb,
     effort |-> r.effort, ind_effort10 |-> r.ind_effort10,
     ind_effort110 |-> r.ind_effort110]

\* ---------------------------------------------------------- likelihood ----

\* the base with beta in it whatever today is
predchoiceUngated(params, r) ==
    LET p == Unpack(params)
        base ==
            FMul(FMul(FMul(FMul(p.phi, FPowInt(p.delta, r.netdistance)),
                           p.beta),
                      FPowInt(p.betahat, r.prediction)),
                 r.wage)
    IN  Sub(FracPow(base, p.gamma), Mul(r.pb, p.alpha))

\* line 255
predchoice(params, r) ==
    LET p == Unpack(params)
        base ==
            FMul(FMul(FMul(FMul(p.phi, FPowInt(p.delta, r.netdistance)),
                           FPowInt(p.beta, r.today)),
                      FPowInt(p.betahat, r.prediction)),
                 r.wage)
    IN  Sub(FracPow(base, p.gamma), Mul(r.pb, p.alpha))

\* the three terms of lines 259-261 for one observation with predicted
\* choice pred
InteriorTerm(pred, effort, sigma) == norm_pdf(effort * Scale, pred, sigma)

UpperTerm(pred, effort, sigma) ==
    norm_cdf(FQuot(Sub(pred, effort * Scale), sigma))

LowerTerm(pred, effort, sigma) == Sub(PUnit, UpperTerm(pred, effort, sigma))

\* the weights of the three terms, lines 259-261
InteriorWeight(r) == 1 - r.ind_effort10 - r.ind_effort110

LowerWeight(r) == r.ind_effort10

UpperWeight(r) == r.ind_effort110

\* prob before the guard, lines 259-261
prob_raw(params, r) ==
    LET pred == predchoice(params, r)
        sigma == Unpack(params).sigma
    IN  Add(Add(Mul(InteriorWeight(r), InteriorTerm(pred, r.effort, sigma)),
                Mul(LowerWeight(r), LowerTerm(pred, r.effort, sigma))),
            Mul(UpperWeight(r), UpperTerm(pred, r.effort, sigma)))

\* 1.0e-4 in units of 1.0e-4, line 266
Tiny == 1

\* a guard that replaces 0.0 only
guardZeroOnly(prob) == IF prob # NaN /\ prob = 0 THEN Tiny ELSE prob

\* lines 266-267: anp.where(prob == 0.0, 1.0e-4, prob), then
\* anp.where(prob == 1.0, 1.0 - 1.0e-4, prob); nan == x is False
guard(prob) ==
    LET p1 == IF prob # NaN /\ prob = 0 THEN Tiny ELSE prob
    IN  IF p1 # NaN /\ p1 = PUnit THEN PUnit - Tiny ELSE p1

\* prob as the logarithm receives it
prob_of(params, r) == guard(prob_raw(params, r))

\* negll = - anp.sum(anp.log(prob)), line 269, over the rows handed in
negloglike(params, rows) ==
    LET terms == [i \in 1..Len(rows) |-> NegLog(prob_of(params, rows[i]))]
    IN  SumTo(terms, Len(terms))

\* --------------------------------------------------------- derivatives ----

\* The derivatives autograd returns stand as forward differences of the
\* modelled negloglike: one parameter is moved by Step and the others stay.
Step(params, k) ==
    IF UnpackNames[k] = "gamma" THEN Scale ELSE Max(1, Abs(params[k]))

Bump(params, k) == [params EXCEPT ![k] = params[k] + Step(params, k)]

\* gradfun = autograd.grad(negloglike), line 394, at one observation: one
\* entry per element of params
gradfun(params, r) ==
    [k \in 1..Len(params) |->
        Sub(negloglike(Bump(params, k), <<r>>), negloglike(params, <<r>>))]

\* ------------------------------------------------------------ matrices ----

ZeroMatrix(n) == [a \in 1..n |-> [b \in 1..n |-> 0]]

Identity(n) == [a \in 1..n |-> [b \in 1..n |-> IF a = b THEN 1 ELSE 0]]

\* A @ B
MatMul(A, B) ==
    [a \in 1..Len(A) |->
        [b \in 1..Len(B[1]) |->
            SumTo([k \in 1..Len(B) |-> Mul(A[a][k], B[k][b])], Len(B))]]

MatAdd(A, B) ==
    [a \in 1..Len(A) |-> [b \in 1..Len(A[a]) |-> Add(A[a][b], B[a][b])]]

\* the outer product of the five leading entries
OuterLeadingFive(v) == [a \in 1..5 |-> [b \in 1..5 |-> Mul(v[a], v[b])]]

\* v[:, None] * v[None, :] for one row v, line 444
Outer(v) == [a \in 1..Len(v) |-> [b \in 1..Len(v) |-> Mul(v[a], v[b])]]

\* np.diag
Diag(A) == [a \in 1..Len(A) |-> A[a][a]]

\* the shape of an array of one, two or three axes
Shape1(v) == <<Len(v)>>

Shape2(A) == IF Len(A) = 0 THEN <<0>> ELSE <<Len(A), Len(A[1])>>

Shape3(T) ==
    IF Len(T) = 0 THEN <<0>> ELSE <<Len(T), Len(T[1]), Len(T[1][1])>>

\* The Hessians the model takes autograd to return are HScale times the
\* identity, a positive definite matrix with an off-diagonal entry, its
\* inverse, and the zero matrix (a sample that leaves the parameters
\* unidentified).  The entries of a Hessian are whole numbers; those of its
\* inverse count units of 1/HScale.
HScale == 1000

Times(c, M) == [a \in 1..Len(M) |-> [b \in 1..Len(M[a]) |-> Mul(c, M[a][b])]]

CoupledHessian(n) ==
    [a \in 1..n |-> [b \in 1..n |->
        CASE a = 1 /\ b = 1 -> 2
          [] a # b /\ {a, b} = {1, 2} -> 1
          [] a = b /\ a # 1 -> 1
          [] OTHER -> 0]]

CoupledInverse(n) ==
    [a \in 1..n |-> [b \in 1..n |->
        CASE a = 2 /\ b = 2 -> 2
          [] a # b /\ {a, b} = {1, 2} -> 0 - 1
          [] a = b /\ a # 2 -> 1
          [] OTHER -> 0]]

Shapes(n) == {Identity(n), CoupledHessian(n), CoupledInverse(n), ZeroMatrix(n)}

HessianPool(n) == {Times(HScale, A) : A \in Shapes(n)}

\* np.linalg.inv, line 405: the matrix M with H @ M = I (I is HScale times
\* Identity in the unit of M); when there is none the call raises LinAlgError
IsSingular(H) ==
    \A M \in Shapes(Len(H)) : MatMul(H, M) # Times(HScale, Identity(Len(H)))

linalg_inv(H) ==
    CHOOSE M \in Shapes(Len(H)) : MatMul(H, M) = Times(HScale, Identity(Len(H)))

\* -------------------------------------------------------- cluster sums ----

\* the keys of a groupby, in ascending order
RECURSIVE SortedKeys(_)
SortedKeys(S) ==
    IF S = {} THEN <<>>
    ELSE LET m == CHOOSE v \in S : \A w \in S : v <= w
         IN  <<m>> \o SortedKeys(S \ {m})

\* the sum of one column over the rows labelled key; pandas' sum skips nan
RECURSIVE ColumnSum(_, _, _, _)
ColumnSum(frame, key, k, i) ==
    IF i = 0 THEN 0
    ELSE LET rest == ColumnSum(frame, key, k, i - 1)
             v == frame[i].values[k]
         IN  IF frame[i].index = key /\ v # NaN THEN rest + v ELSE rest

\* gradients.groupby("wid").sum(), line 432: one row per index value, in
\* ascending order of the index
GroupBySum(frame, width) ==
    LET keys == SortedKeys({frame[i].index : i \in 1..Len(frame)})
    IN  [j \in 1..Len(keys) |->
            [index |-> keys[j],
             values |-> [k \in 1..width |->
                            ColumnSum(frame, keys[j], k, Len(frame))]]]

\* np.sum(T, axis=0) of the first j matrices of a stack T of n x n matrices
RECURSIVE MatSum(_, _, _)
MatSum(T, n, j) ==
    IF j = 0 THEN ZeroMatrix(n) ELSE MatAdd(T[j], MatSum(T, n, j - 1))

\* ------------------------------------------------------------ variance ----

\* One unit of a standard error is 1/SeUnit; one unit of a variance (the
\* product of two inverse Hessian entries and two gradient entries) is
\* 1/SeUnit^2.
SeUnit == HScale * Scale

\* a fixed-point real in the unit of the standard errors
Fine(v) == Mul(HScale, v)

\* np.sqrt of a variance: nan below zero
Sqrt(v) == IF v = NaN \/ v < 0 THEN NaN ELSE IRoot(2, v)

\* adj * M for the fraction adj = num / den, den > 0
ScaleMatrix(adj, M) ==
    [a \in 1..Len(M) |-> [b \in 1..Len(M[a]) |->
        IF M[a][b] = NaN THEN NaN
        ELSE (adj.num * M[a][b]) \div adj.den]]

\* a fraction with a positive denominator
Fraction(n, d) ==
    IF d < 0 THEN [num |-> 0 - n, den |-> 0 - d] ELSE [num |-> n, den |-> d]

\* np.round(v, 3) of a real in units of 1/SeUnit, in thousandths
Round3(v) ==
    IF v = NaN THEN NaN
    ELSE LET step == SeUnit \div 1000 IN (v + step \div 2) \div step

\* f"{v:,.<digits>f}" of a real counting units of 1/unit: the nearest
\* multiple of 10^-digits, counted in units of 10^-digits; nan prints as nan
Format(v, unit, digits) ==
    IF v = NaN THEN NaN
    ELSE (2 * v * IPow(10, digits) + unit) \div (2 * unit)

\* 2 * (1 - norm.cdf(np.abs(z), 0, 1)), lines 487 and 492
pvalue_of(z) ==
    IF z = NaN THEN NaN ELSE 2 * (PUnit - norm_cdf(Abs(z)))

\* -------------------------------------------------------------- inputs ----

\* the most rows decisions_data.dta holds, and the most individuals
MaxRows == 8
MaxInd == 2

\* the kinds of input file: a clean one, one with bonus observations, one
\* whose ind_to_keep.csv lists only the first individual, one with a wage
\* below zero
Variants == {"plain", "bonus", "dropout", "negwage"}

EffortCycle == <<110, 60, 10, 35>>

\* row i of decisions_data.dta for m individuals: the individuals take turns,
\* efforts run through both boundaries and the interior, and the dummies
\* today, prediction and workdone1 through their values
RawRow(i, m, v) ==
    [index |-> i - 1,
     wid |-> 1 + ((i - 1) % m),
     netdistance |-> i % 3,
     wage |-> IF v = "negwage" /\ i = 1 THEN 0 - 1 ELSE 1 + (i % 2),
     today |-> IF i % 3 = 1 THEN 1 ELSE 0,
     prediction |-> IF i % 3 = 2 THEN 1 ELSE 0,
     workdone1 |-> IF i % 2 = 0 THEN 10 ELSE 0,
     effort |-> EffortCycle[(i % 4) + 1],
     bonusoffered |-> IF v = "bonus" /\ i % 3 = 0 THEN 1 ELSE 0]

\* the two input files, lines 61-62
InputFiles(n, m, v) ==
    [decisions_data |-> [i \in 1..n |-> RawRow(i, m, v)],
     ind_to_keep |-> IF v = "dropout" THEN {1} ELSE 1..m]

\* The points at which the optimizer calls negloglike after par_init:
\* Nelder-Mead is unconstrained, and which points it tries depends on float
\* arithmetic the model does not have.  One point drives observations to
\* probability 0 and 1, one has sigma = 0, one has a non-integer exponent,
\* and one moves every parameter but gamma a step off par_init (it fits the
\* larger tables better than par_init); the model's optimizer tries them in
\* turn.
SaturatingPoint ==
    [par_init EXCEPT ![PositionOf(UnpackNames, "phi")] = 10 * phi_init,
                     ![PositionOf(UnpackNames, "sigma")] = sigma_init \div 8]

ZeroSigmaPoint == [par_init EXCEPT ![PositionOf(UnpackNames, "sigma")] = 0]

RootPoint ==
    [par_init EXCEPT ![PositionOf(UnpackNames, "gamma")] = gamma_init + Scale]

DescentPoint ==
    <<beta_init - 3, betahat_init + 2, delta_init - 1, gamma_init,
      phi_init - 100 * Scale, alpha_init, sigma_init + 10 * Scale>>

TrialPoints == <<SaturatingPoint, ZeroSigmaPoint, RootPoint, DescentPoint>>

\* the point iteration k tries
TrialPoint(k) == TrialPoints[((k - 1) % Len(TrialPoints)) + 1]

\* --------------------------------------------------------------- state ----

VARIABLES
    pc,               \* the cell (or part of a cell) to run next
    raised,           \* the exception that stopped the run, "" for none
    stagelog,         \* the stages entered so far, in order
    input,            \* the two input files
    dt,               \* the data frame dt
    ind_keep,         \* the wid_col1 column of ind_keep
    mle_args,         \* the columns handed to negloglike, row by row
    x,                \* the point of the latest negloglike call of minimize
    fx,               \* the value that call returned
    best,             \* the best vertex of the simplex
    fbest,            \* its value
    iterations,       \* the iterations of Nelder-Mead so far
    sol,              \* the OptimizeResult opt.minimize returned
    res,              \* res = sol.x
    hessian,
    hess_inv,
    derivs_at,        \* the points Hfun and gradfun were called at
    gradients,
    gradients_indiv,
    G_j,
    G,
    counts,           \* Nobs, Nindiv, K
    adj,
    varcov_estimates,
    se_cluster,
    tests,            \* zvalues_1, pvalues_1, zvalue_a, pvalue_a
    Table_1,
    printed           \* the lines of the last cell

vars ==
    <<pc, raised, stagelog, input, dt, ind_keep, mle_args, x, fx, best, fbest,
      iterations, sol, res, hessian, hess_inv, derivs_at, gradients,
      gradients_indiv, G_j, G, counts, adj, varcov_estimates, se_cluster,
      tests, Table_1, printed>>

\* the cells of the notebook in the order a run executes them; "neldermead"
\* is the loop inside opt.minimize
CellOrder ==
    <<"read", "keep", "clean", "columns", "negloglike", "minimize",
      "neldermead", "names", "autograd", "hessian", "gradients", "groupby",
      "outer", "sandwich", "tests", "table", "print", "done">>

NextCell(c) == CellOrder[PositionOf(CellOrder, c) + 1]

StageOrder ==
    <<"load", "filter", "likelihood", "optimize", "derivatives", "variance",
      "report">>

\* a grouping of the cells in which printing the estimates belongs to the
\* report
StageOfRegrouped(c) ==
    CASE c = "read" -> "load"
      [] c \in {"keep", "clean", "columns"} -> "filter"
      [] c = "negloglike" -> "likelihood"
      [] c \in {"minimize", "neldermead"} -> "optimize"
      [] c \in {"autograd", "hessian", "gradients", "groupby", "outer"} ->
            "derivatives"
      [] c = "sandwich" -> "variance"
      [] c \in {"names", "tests", "table", "print"} -> "report"

\* the stage of the pipeline each cell belongs to
StageOf(c) ==
    CASE c = "read" -> "load"
      [] c \in {"keep", "clean", "columns"} -> "filter"
      [] c = "negloglike" -> "likelihood"
      [] c \in {"minimize", "neldermead", "names"} -> "optimize"
      [] c \in {"autograd", "hessian", "gradients", "groupby", "outer"} ->
            "derivatives"
      [] c = "sandwich" -> "variance"
      [] c \in {"tests", "table", "print"} -> "report"

\* running cell c: its stage is entered unless the run is in it already
Enter(c) ==
    IF stagelog # <<>> /\ stagelog[Len(stagelog)] = StageOf(c) THEN stagelog
    ELSE Append(stagelog, StageOf(c))

\* cell c runs to its end
Finish(c) ==
    /\ pc' = NextCell(c)
    /\ stagelog' = Enter(c)
    /\ raised' = raised

\* cell c stops with an exception
Raise(c, e) ==
    /\ pc' = c
    /\ stagelog' = Enter(c)
    /\ raised' = e

Ready(c) == pc = c /\ raised = ""

Init ==
    /\ pc = "read"
    /\ raised = ""
    /\ stagelog = <<>>
    /\ \E n \in 0..MaxRows, m \in 1..MaxInd, v \in Variants :
          input = InputFiles(n, m, v)
    /\ dt = <<>>
    /\ ind_keep = {}
    /\ mle_args = <<>>
    /\ x = <<>>
    /\ fx = 0
    /\ best = <<>>
    /\ fbest = 0
    /\ iterations = 0
    /\ sol = <<>>
    /\ res = <<>>
    /\ hessian = <<>>
    /\ hess_inv = <<>>
    /\ derivs_at = [Hfun |-> {}, gradfun |-> {}]
    /\ gradients = <<>>
    /\ gradients_indiv = <<>>
    /\ G_j = <<>>
    /\ G = <<>>
    /\ counts = [Nobs |-> 0, Nindiv |-> 0, K |-> 0]
    /\ adj = [num |-> 0, den |-> 1]
    /\ varcov_estimates = <<>>
    /\ se_cluster = <<>>
    /\ tests = <<>>
    /\ Table_1 = <<>>
    /\ printed = <<>>

\* ------------------------------------------------------------- actions ----

\* the rows among the first n whose position is in kept, in their order
RECURSIVE Select(_, _, _)
Select(rows, kept, n) ==
    IF n = 0 THEN <<>>
    ELSE IF n \in kept THEN Append(Select(rows, kept, n - 1), rows[n])
    ELSE Select(rows, kept, n - 1)

\* dt[dt.wid.isin(ind_keep.wid_col1)], line 66
KeepIndividuals(rows, ids) ==
    Select(rows, {i \in 1..Len(rows) : rows[i].wid \in ids}, Len(rows))

\* dt[dt.bonusoffered != 1], line 84
DropBonus(rows) ==
    Select(rows, {i \in 1..Len(rows) : rows[i].bonusoffered # 1}, Len(rows))

\* dt.reset_index(drop=True), line 88
reset_index(rows) ==
    [i \in 1..Len(rows) |-> [rows[i] EXCEPT !.index = i - 1]]

\* the columns of one row that negloglike receives, lines 313-314 and 418
ArgsOf(r) ==
    [netdistance |-> r.netdistance, wage |-> r.wage, today |-> r.today,
     prediction |-> r.prediction, pb |-> r.pb, effort |-> r.effort,
     ind_effort10 |-> r.ind_effort10, ind_effort110 |-> r.ind_effort110]

\* a < b on floats: False when either is nan
Less(a, b) == a # NaN /\ b # NaN /\ a < b

\* cell 4, lines 61-62: the two files are read
ReadData ==
    /\ Ready("read")
    /\ dt' = input.decisions_data
    /\ ind_keep' = input.ind_to_keep
    /\ Finish("read")
    /\ UNCHANGED <<input, mle_args, x, fx, best, fbest, iterations, sol, res,
                   hessian, hess_inv, derivs_at, gradients, gradients_indiv,
                   G_j, G, counts, adj, varcov_estimates, se_cluster, tests,
                   Table_1, printed>>

\* cell 4, line 66: the primary sample
KeepSample ==
    /\ Ready("keep")
    /\ dt' = KeepIndividuals(dt, ind_keep)
    /\ Finish("keep")
    /\ UNCHANGED <<input, ind_keep, mle_args, x, fx, best, fbest, iterations,
                   sol, res, hessian, hess_inv, derivs_at, gradients,
                   gradients_indiv, G_j, G, counts, adj, varcov_estimates,
                   se_cluster, tests, Table_1, printed>>

\* cell 6, lines 84-88
CleanData ==
    /\ Ready("clean")
    /\ dt' = reset_index([i \in 1..Len(DropBonus(dt)) |->
                             WithDummies(DropBonus(dt)[i])])
    /\ Finish("clean")
    /\ UNCHANGED <<input, ind_keep, mle_args, x, fx, best, fbest, iterations,
                   sol, res, hessian, hess_inv, derivs_at, gradients,
                   gradients_indiv, G_j, G, counts, adj, varcov_estimates,
                   se_cluster, tests, Table_1, printed>>

\* cells 7 and 8, lines 98 and 131-132 (wid is a whole number already)
SelectColumns ==
    /\ Ready("columns")
    /\ dt' = [i \in 1..Len(dt) |-> KeepColumns(dt[i])]
    /\ Finish("columns")
    /\ UNCHANGED <<input, ind_keep, mle_args, x, fx, best, fbest, iterations,
                   sol, res, hessian, hess_inv, derivs_at, gradients,
                   gradients_indiv, G_j, G, counts, adj, varcov_estimates,
                   se_cluster, tests, Table_1, printed>>

\* cell 15, lines 210-271: negloglike is defined
DefineLikelihood ==
    /\ Ready("negloglike")
    /\ Finish("negloglike")
    /\ UNCHANGED <<input, dt, ind_keep, mle_args, x, fx, best, fbest,
                   iterations, sol, res, hessian, hess_inv, derivs_at,
                   gradients, gradients_indiv, G_j, G, counts, adj,
                   varcov_estimates, se_cluster, tests, Table_1, printed>>

\* cell 18, lines 309-318: mle_args is built and opt.minimize starts with a
\* call of negloglike at par_init
StartMinimize ==
    /\ Ready("minimize")
    /\ mle_args' = [i \in 1..Len(dt) |-> ArgsOf(dt[i])]
    /\ x' = par_init
    /\ fx' = negloglike(par_init, mle_args')
    /\ best' = x'
    /\ fbest' = fx'
    /\ iterations' = 0
    /\ Finish("minimize")
    /\ UNCHANGED <<input, dt, ind_keep, sol, res, hessian, hess_inv,
                   derivs_at, gradients, gradients_indiv, G_j, G, counts, adj,
                   varcov_estimates, se_cluster, tests, Table_1, printed>>

\* the loop body under `while True`
NelderMeadIterateUnbounded ==
    /\ Ready("neldermead")
    /\ iterations' = iterations + 1
    /\ x' = TrialPoint(iterations')
    /\ fx' = negloglike(x', mle_args)
    /\ best' = IF Less(fx', fbest) THEN x' ELSE best
    /\ fbest' = IF Less(fx', fbest) THEN fx' ELSE fbest
    /\ pc' = pc
    /\ stagelog' = Enter("neldermead")
    /\ raised' = raised
    /\ UNCHANGED <<input, dt, ind_keep, mle_args, sol, res, hessian, hess_inv,
                   derivs_at, gradients, gradients_indiv, G_j, G, counts,
                   adj, varcov_estimates, se_cluster, tests, Table_1,
                   printed>>

\* one iteration of the loop of Nelder-Mead, `while iterations < maxiter`:
\* negloglike is called at a further point, which becomes the best vertex
\* when its value is lower
NelderMeadIterate ==
    /\ Ready("neldermead")
    /\ iterations < maxiter
    /\ iterations' = iterations + 1
    /\ x' = TrialPoint(iterations')
    /\ fx' = negloglike(x', mle_args)
    /\ best' = IF Less(fx', fbest) THEN x' ELSE best
    /\ fbest' = IF Less(fx', fbest) THEN fx' ELSE fbest
    /\ pc' = pc
    /\ stagelog' = Enter("neldermead")
    /\ raised' = raised
    /\ UNCHANGED <<input, dt, ind_keep, mle_args, sol, res, hessian, hess_inv,
                   derivs_at, gradients, gradients_indiv, G_j, G, counts,
                   adj, varcov_estimates, se_cluster, tests, Table_1,
                   printed>>

\* what opt.minimize returns: the best vertex, its value, and success, which
\* is False when the loop ran out of iterations
OptimizeResult(v, fv, nit) == [x |-> v, fun |-> fv, success |-> nit < maxiter]

\* the loop ends, on convergence (the starting simplex is too wide for that
\* before the first iteration) or with iterations = maxiter, and minimize
\* returns: its locals are gone; line 319: res = sol.x
NelderMeadStop ==
    /\ Ready("neldermead")
    /\ iterations > 0
    /\ sol' = OptimizeResult(best, fbest, iterations)
    /\ res' = sol'.x
    /\ x' = <<>>
    /\ fx' = 0
    /\ best' = <<>>
    /\ fbest' = 0
    /\ iterations' = 0
    /\ Finish("neldermead")
    /\ UNCHANGED <<input, dt, ind_keep, mle_args, hessian, hess_inv,
                   derivs_at, gradients, gradients_indiv, G_j, G, counts,
                   adj, varcov_estimates, se_cluster, tests, Table_1,
                   printed>>

\* cell 19, lines 344-354: parameters_name is defined, res is printed
PrintEstimates ==
    /\ Ready("names")
    /\ Finish("names")
    /\ UNCHANGED <<input, dt, ind_keep, mle_args, x, fx, best, fbest,
                   iterations, sol, res, hessian, hess_inv, derivs_at,
                   gradients, gradients_indiv, G_j, G, counts, adj,
                   varcov_estimates, se_cluster, tests, Table_1, printed>>

\* cell 21, lines 393-394
DefineDerivatives ==
    /\ Ready("autograd")
    /\ Finish("autograd")
    /\ UNCHANGED <<input, dt, ind_keep, mle_args, x, fx, best, fbest,
                   iterations, sol, res, hessian, hess_inv, derivs_at,
                   gradients, gradients_indiv, G_j, G, counts, adj,
                   varcov_estimates, se_cluster, tests, Table_1, printed>>

\* cell 22, lines 404-405: the Hessian of negloglike over mle_args at res; on
\* an empty sample negloglike is constant and its Hessian zero
ComputeHessian ==
    /\ Ready("hessian")
    /\ \E H \in HessianPool(Len(res)) :
          /\ mle_args = <<>> => H = ZeroMatrix(Len(res))
          /\ hessian' = H
          /\ IF IsSingular(H)
             THEN hess_inv' = hess_inv /\ Raise("hessian", "LinAlgError")
             ELSE hess_inv' = linalg_inv(H) /\ Finish("hessian")
    /\ derivs_at' = [derivs_at EXCEPT !.Hfun = @ \cup {res}]
    /\ UNCHANGED <<input, dt, ind_keep, mle_args, x, fx, best, fbest,
                   iterations, sol, res, gradients, gradients_indiv, G_j, G,
                   counts, adj, varcov_estimates, se_cluster, tests, Table_1,
                   printed>>

\* cell 23, lines 417-421: one gradient per row of dt, under the row's index
ComputeGradients ==
    /\ Ready("gradients")
    /\ gradients' =
          [i \in 1..Len(dt) |->
              [index |-> dt[i].index, values |-> gradfun(res, ArgsOf(dt[i]))]]
    /\ derivs_at' = [derivs_at EXCEPT !.gradfun = @ \cup {res}]
    /\ Finish("gradients")
    /\ UNCHANGED <<input, dt, ind_keep, mle_args, x, fx, best, fbest,
                   iterations, sol, res, hessian, hess_inv, gradients_indiv,
                   G_j, G, counts, adj, varcov_estimates, se_cluster, tests,
                   Table_1, printed>>

\* cell 24, lines 431-432: the i-th gradient is labelled with the wid of the
\* i-th row of dt, and the gradients are summed within each label
SumWithinIndividual ==
    /\ Ready("groupby")
    /\ gradients' =
          [i \in 1..Len(gradients) |->
              [gradients[i] EXCEPT !.index = dt[i].wid]]
    /\ gradients_indiv' = GroupBySum(gradients', Len(gradients'[1].values))
    /\ Finish("groupby")
    /\ UNCHANGED <<input, dt, ind_keep, mle_args, x, fx, best, fbest,
                   iterations, sol, res, hessian, hess_inv, derivs_at, G_j, G,
                   counts, adj, varcov_estimates, se_cluster, tests, Table_1,
                   printed>>

\* cell 25, lines 442-447
OuterProducts ==
    /\ Ready("outer")
    /\ gradients_indiv' =
          [j \in 1..Len(gradients_indiv) |-> gradients_indiv[j].values]
    /\ G_j' = [j \in 1..Len(gradients_indiv') |-> Outer(gradients_indiv'[j])]
    /\ G' = MatSum(G_j', Len(G_j'[1]), Len(G_j'))
    /\ Finish("outer")
    /\ UNCHANGED <<input, dt, ind_keep, mle_args, x, fx, best, fbest,
                   iterations, sol, res, hessian, hess_inv, derivs_at,
                   gradients, counts, adj, varcov_estimates, se_cluster,
                   tests, Table_1, printed>>

\* Nobs, Nindiv and K, lines 457-460
CountsOf(frame, estimate) ==
    [Nobs |-> Len(frame),
     Nindiv |-> Cardinality({frame[i].wid : i \in 1..Len(frame)}),
     K |-> Len(estimate)]

\* adj = (Nobs-1)/(Nobs-K) * Nindiv/(Nindiv-1), line 463, evaluated from the
\* left: both divisions are of Python ints and raise ZeroDivisionError
AdjRaises(c) == c.Nobs - c.K = 0 \/ c.Nindiv - 1 = 0

\* the adjustment without the two "- 1"
AdjOfPlain(c) == Fraction(c.Nobs * c.Nindiv, (c.Nobs - c.K) * (c.Nindiv - 1))

AdjOf(c) == Fraction((c.Nobs - 1) * c.Nindiv, (c.Nobs - c.K) * (c.Nindiv - 1))

\* adj * (hess_inv @ G @ hess_inv), line 465
VarCov(a, Hinv, Gm) == ScaleMatrix(a, MatMul(MatMul(Hinv, Gm), Hinv))

\* np.sqrt(np.diag(varcov_estimates)), line 466
StdErrors(V) == [i \in 1..Len(V) |-> Sqrt(Diag(V)[i])]

\* cell 26, lines 457-466
Sandwich ==
    /\ Ready("sandwich")
    /\ counts' = CountsOf(dt, res)
    /\ IF AdjRaises(counts')
       THEN /\ Raise("sandwich", "ZeroDivisionError")
            /\ UNCHANGED <<adj, varcov_estimates, se_cluster>>
       ELSE /\ adj' = AdjOf(counts')
            /\ varcov_estimates' = VarCov(adj', hess_inv, G)
            /\ se_cluster' = StdErrors(varcov_estimates')
            /\ Finish("sandwich")
    /\ UNCHANGED <<input, dt, ind_keep, mle_args, x, fx, best, fbest,
                   iterations, sol, res, hessian, hess_inv, derivs_at,
                   gradients, gradients_indiv, G_j, G, tests, Table_1,
                   printed>>

\* element i of a numpy array, counting from 0
At(a, i) == a[i + 1]

\* res[0:3] and se_cluster[0:3], line 486: the positions 0, 1, 2
OneSlice == <<0, 3>>

\* res[5] and se_cluster[5], line 491
AlphaPosition == 5

\* lines 486-487
zvalues_1_of(estimate, se) ==
    [i \in 1..(OneSlice[2] - OneSlice[1]) |->
        FQuot(Fine(At(estimate, OneSlice[1] + i - 1) - Scale),
              At(se, OneSlice[1] + i - 1))]

\* the position counted from 1
zvalue_a_from_one(estimate, se) ==
    FQuot(Fine(At(estimate, AlphaPosition + 1)), At(se, AlphaPosition + 1))

\* line 491
zvalue_a_of(estimate, se) ==
    FQuot(Fine(At(estimate, AlphaPosition)), At(se, AlphaPosition))

\* cell 28, lines 486-492
HypothesisTests ==
    /\ Ready("tests")
    /\ tests' =
          LET z1 == zvalues_1_of(res, se_cluster)
              za == zvalue_a_of(res, se_cluster)
          IN  [zvalues_1 |-> z1,
               pvalues_1 |-> [i \in 1..Len(z1) |-> pvalue_of(z1[i])],
               zvalue_a |-> za,
               pvalue_a |-> pvalue_of(za)]
    /\ Finish("tests")
    /\ UNCHANGED <<input, dt, ind_keep, mle_args, x, fx, best, fbest,
                   iterations, sol, res, hessian, hess_inv, derivs_at,
                   gradients, gradients_indiv, G_j, G, counts, adj,
                   varcov_estimates, se_cluster, Table_1, printed>>

\* cell 31, lines 517-523: Table_1, also written to table1_python.csv
MakeTable ==
    /\ Ready("table")
    /\ Table_1' =
          [i \in 1..Len(parameters_name) |->
              [parameters |-> parameters_name[i],
               estimates |-> Round3(Fine(res[i])),
               standarderr |-> Round3(se_cluster[i])]]
    /\ Finish("table")
    /\ UNCHANGED <<input, dt, ind_keep, mle_args, x, fx, best, fbest,
                   iterations, sol, res, hessian, hess_inv, derivs_at,
                   gradients, gradients_indiv, G_j, G, counts, adj,
                   varcov_estimates, se_cluster, tests, printed>>

\* the four hypothesis lines of cell 32, lines 649-652: the label's
\* parameter and null value, and the p-value printed after it, to two
\* decimals (three for alpha)
HypothesisLines(t) ==
    << [symbol |-> "beta", null |-> 1,
        pvalue |-> Format(At(t.pvalues_1, 0), PUnit, 2)],
       [symbol |-> "beta_h", null |-> 1,
        pvalue |-> Format(At(t.pvalues_1, 1), PUnit, 2)],
       [symbol |-> "alpha", null |-> 0,
        pvalue |-> Format(t.pvalue_a, PUnit, 3)],
       [symbol |-> "delta", null |-> 1,
        pvalue |-> Format(At(t.pvalues_1, 2), PUnit, 2)] >>

\* cell 32, lines 644-652
PrintResults ==
    /\ Ready("print")
    /\ printed' =
          [table |-> Table_1,
           observations |-> counts.Nobs,
           participants |-> counts.Nindiv,
           loglikelihood |-> Format(Sub(0, sol.fun), Scale, 0),
           hypotheses |-> HypothesisLines(tests)]
    /\ Finish("print")
    /\ UNCHANGED <<input, dt, ind_keep, mle_args, x, fx, best, fbest,
                   iterations, sol, res, hessian, hess_inv, derivs_at,
                   gradients, gradients_indiv, G_j, G, counts, adj,
                   varcov_estimates, se_cluster, tests, Table_1>>

Next ==
    \/ ReadData
    \/ KeepSample
    \/ CleanData
    \/ SelectColumns
    \/ DefineLikelihood
    \/ StartMinimize
    \/ NelderMeadIterate
    \/ NelderMeadStop
    \/ PrintEstimates
    \/ DefineDerivatives
    \/ ComputeHessian
    \/ ComputeGradients
    \/ SumWithinIndividual
    \/ OuterProducts
    \/ Sandwich
    \/ HypothesisTests
    \/ MakeTable
    \/ PrintResults

Spec == Init /\ [][Next]_vars

\* -------------------------------------------------------------- claims ----

\* cell c has run to its end
After(c) == PositionOf(CellOrder, pc) > PositionOf(CellOrder, c)

\* the individuals of the estimation sample
Individuals == {dt[i].wid : i \in 1..Len(dt)}

Rank ==
    (Len(CellOrder) - PositionOf(CellOrder, pc)) * (maxiter + 2)
        + (maxiter - iterations) + (IF raised = "" THEN 1 ELSE 0)

\* a run has stopped: it is through the last cell, or an exception is
\* raised (every action takes Ready of its cell)
Stopped == pc = "done" \/ raised # ""

\* C2 as stated: the loop makes at most maxiter iterations, and a run never
\* stops before the end of the report.
C2_AlwaysReachesReport ==
    /\ iterations <= maxiter
    /\ Stopped => pc = "done"

\* C2, amended: the loop makes at most maxiter iterations, every run is
\* finite (each step lowers Rank, which is never negative), and a run stops
\* only at the end of the report, or in np.linalg.inv with LinAlgError on a
\* singular Hessian, or at adj with ZeroDivisionError when Nobs = K or
\* Nindiv = 1.
C2_StopsOrRaises ==
    /\ [](iterations <= maxiter)
    /\ [](Rank >= 0)
    /\ [][Rank' < Rank]_vars
    /\ [](Stopped =>
            \/ pc = "done" /\ raised = ""
            \/ /\ pc = "hessian"
               /\ raised = "LinAlgError"
               /\ IsSingular(hessian)
            \/ /\ pc = "sandwich"
               /\ raised = "ZeroDivisionError"
               /\ (counts.Nobs = counts.K \/ counts.Nindiv = 1))

\* the loop ran out of iterations and the run went on to the end
C2_RanOutAndFinished == pc = "done" /\ ~ sol.success

\* the three terms of one observation written out with the boundaries 10 and
\* 110: 1 - Phi((e* - 10) / sigma), the density at the effort, and
\* Phi((e* - 110) / sigma)
TobitTerms(params, r) ==
    LET pred == predchoice(params, r)
        sigma == params[PositionOf(UnpackNames, "sigma")]
    IN  [lower |-> Sub(PUnit, norm_cdf(FQuot(Sub(pred, 10 * Scale), sigma))),
         interior |-> norm_pdf(r.effort * Scale, pred, sigma),
         upper |-> norm_cdf(FQuot(Sub(pred, 110 * Scale), sigma))]

\* C4: in the estimation sample each observation has exactly one of the
\* three weights equal to 1 and the other two equal to 0: the lower one iff
\* effort = 10, the upper one iff effort = 110, the interior one otherwise;
\* the two dummies are never both 1.  At every point the optimizer calls
\* negloglike at, prob is the term so selected (and nan where one of the
\* three terms is nan, since 0 * nan = nan).
C4_TobitWeights ==
    /\ After("clean") =>
          \A i \in 1..Len(dt) :
              LET r == dt[i]
              IN  /\ {LowerWeight(r), InteriorWeight(r), UpperWeight(r)}
                        \subseteq {0, 1}
                  /\ LowerWeight(r) + InteriorWeight(r) + UpperWeight(r) = 1
                  /\ LowerWeight(r) = 1 <=> r.effort = 10
                  /\ UpperWeight(r) = 1 <=> r.effort = 110
                  /\ InteriorWeight(r) = 1 <=> r.effort \notin {10, 110}
                  /\ ~ (r.ind_effort10 = 1 /\ r.ind_effort110 = 1)
    /\ pc = "neldermead" =>
          \A i \in 1..Len(mle_args) :
              LET r == mle_args[i]
                  t == TobitTerms(x, r)
              IN  prob_raw(x, r) =
                      IF NaN \in {t.lower, t.interior, t.upper} THEN NaN
                      ELSE IF r.effort = 10 THEN t.lower
                      ELSE IF r.effort = 110 THEN t.upper
                      ELSE t.interior

\* the optimizer is at a point with sigma > 0 on a sample that holds an
\* observation at each boundary and one in the interior
C4_AllThreeKinds ==
    /\ pc = "neldermead"
    /\ iterations > 0
    /\ x[PositionOf(UnpackNames, "sigma")] > 0
    /\ \E i \in 1..Len(mle_args) : mle_args[i].effort = 10
    /\ \E i \in 1..Len(mle_args) : mle_args[i].effort = 110
    /\ \E i \in 1..Len(mle_args) : mle_args[i].effort \notin {10, 110}

\* the sum of entry k of the gradients of all the observations of individual
\* j, as float addition gives it
WithinSum(j, k) ==
    SumTo([i \in 1..Len(dt) |->
              IF dt[i].wid = j THEN gradients[i].values[k] ELSE 0],
          Len(dt))

\* the score of cluster j: the gradients of the observations of dt whose wid
\* is j, summed entry by entry (a nan entry adds nothing to the sum pandas
\* takes)
ClusterScore(j) ==
    [k \in 1..Len(res) |->
        SumTo([i \in 1..Len(dt) |->
                  IF dt[i].wid = j /\ gradients[i].values[k] # NaN
                  THEN gradients[i].values[k] ELSE 0],
              Len(dt))]

\* the sum over the clusters of the outer product of the cluster score with
\* itself
ScoreOuterSum ==
    LET ids == SortedKeys(Individuals)
    IN  [a \in 1..Len(res) |-> [b \in 1..Len(res) |->
            SumTo([n \in 1..Len(ids) |->
                      ClusterScore(ids[n])[a] * ClusterScore(ids[n])[b]],
                  Len(ids))]]

AllScoreOuterSum ==
    LET ids == SortedKeys(Individuals)
    IN  [a \in 1..Len(res) |-> [b \in 1..Len(res) |->
            SumTo([n \in 1..Len(ids) |->
                      Mul(WithinSum(ids[n], a), WithinSum(ids[n], b))],
                  Len(ids))]]

C6_NeverDividesByZero ==
    Ready("sandwich") =>
        Len(dt) - Len(res) # 0 /\ Cardinality(Individuals) - 1 # 0

\* C6, amended: the variance cell raises ZeroDivisionError exactly when
\* Nobs = K or Nindiv = 1; otherwise adj is the fraction
\* (Nobs - 1) / (Nobs - K) * Nindiv / (Nindiv - 1) with Nobs the rows of dt,
\* K the length of res and Nindiv the distinct wid of dt.
C6_AdjustmentFactor ==
    LET Nobs == Len(dt)
        K == Len(res)
        Nclusters == Cardinality(Individuals)
    IN  /\ (pc = "sandwich" /\ raised # "") =>
              /\ raised = "ZeroDivisionError"
              /\ (Nobs = K \/ Nclusters = 1)
        /\ After("sandwich") =>
              /\ Nobs # K
              /\ Nclusters # 1
              /\ counts = [Nobs |-> Nobs, Nindiv |-> Nclusters, K |-> K]
              /\ adj.den > 0
              /\ adj.num * ((Nobs - K) * (Nclusters - 1))
                    = adj.den * ((Nobs - 1) * Nclusters)

\* the variance cell has run on a sample with more observations than
\* parameters
C6_AdjComputed == After("sandwich") /\ Len(dt) > Len(res) /\ adj.num > adj.den

C8_AlwaysFinite == pc = "neldermead" => IsFinite(fx)

\* C8, amended: at every point the optimizer calls negloglike at, a
\* probability that is exactly 0 becomes 1.0e-4, one that is exactly 1
\* becomes 1 - 1.0e-4, every other value passes unchanged, nan included, so
\* neither 0 nor 1 reaches the logarithm; the value returned is finite when
\* no probability is nan and nan otherwise, and a probability is nan only
\* for sigma <= 0 or a predicted choice that is nan.
C8_GuardZeroOne ==
    pc = "neldermead" =>
        /\ \A i \in 1..Len(mle_args) :
              LET raw == prob_raw(x, mle_args[i])
                  p == prob_of(x, mle_args[i])
              IN  /\ raw = 0 => p = Tiny
                  /\ raw = PUnit => p = PUnit - Tiny
                  /\ raw \notin {0, PUnit} => p = raw
                  /\ p \notin {0, PUnit}
                  /\ raw = NaN =>
                        \/ x[PositionOf(UnpackNames, "sigma")] <= 0
                        \/ predchoice(x, mle_args[i]) = NaN
        /\ IsFinite(fx) <=>
              \A i \in 1..Len(mle_args) : prob_raw(x, mle_args[i]) # NaN

\* the optimizer is at a point where the guard replaces a 0 and a 1
C8_BothReplaced ==
    /\ pc = "neldermead"
    /\ iterations > 0
    /\ \E i \in 1..Len(mle_args) : prob_raw(x, mle_args[i]) = 0
    /\ \E i \in 1..Len(mle_args) : prob_raw(x, mle_args[i]) = PUnit
    /\ IsFinite(fx)

\* the p-value of the test of parameter nm against the value null, from the
\* estimate and the standard error at the position negloglike unpacks nm
\* from
PValueFor(nm, null) ==
    LET k == PositionOf(UnpackNames, nm)
    IN  pvalue_of(FQuot(Fine(res[k] - null * Scale), se_cluster[k]))

ClusterRow(n) ==
    IF After("outer") THEN gradients_indiv[n] ELSE gradients_indiv[n].values

GatedValues == {0 - Scale, 0, 3, Scale, 25}

\* params with the parameter named nm moved to v, everything else as it is
MovedTo(params, nm, v) ==
    [params EXCEPT ![PositionOf(UnpackNames, nm)] = v]

\* observation r has the same predicted choice, the same probability and the
\* same term of the negative log-likelihood under p and under q
SameContribution(p, q, r) ==
    /\ predchoice(p, r) = predchoice(q, r)
    /\ prob_of(p, r) = prob_of(q, r)
    /\ negloglike(p, <<r>>) = negloglike(q, <<r>>)

\* the points the optimizer calls negloglike at: par_init and the points it
\* tries
OptimizerPoints == {par_init} \cup {TrialPoints[k] : k \in 1..Len(TrialPoints)}

\* C12: at every point the optimizer calls negloglike at, moving beta alone
\* changes nothing for an observation with today = 0, moving betahat alone
\* changes nothing for one with prediction = 0, and moving alpha alone
\* changes nothing for one with pb = 0: the predicted choice, the
\* probability and the likelihood term of the observation stay the same.
\* The optimizer's points come round again after Len(TrialPoints)
\* iterations, so the comparison is made on the first round.
C12_IndicatorGating ==
    pc = "neldermead" =>
        /\ x \in OptimizerPoints
        /\ iterations <= Len(TrialPoints) =>
              \A i \in 1..Len(mle_args) : \A v \in GatedValues :
                  LET r == mle_args[i]
                  IN  /\ r.today = 0 =>
                            SameContribution(x, MovedTo(x, "beta", v), r)
                      /\ r.prediction = 0 =>
                            SameContribution(x, MovedTo(x, "betahat", v), r)
                      /\ r.pb = 0 =>
                            SameContribution(x, MovedTo(x, "alpha", v), r)

\* the optimizer is at a point where each gate is closed for one observation
\* and open for another, and where moving beta does change the predicted
\* choice of an observation with today = 1
C12_GatesOpenAndClosed ==
    /\ pc = "neldermead"
    /\ iterations \in 1..Len(TrialPoints)
    /\ \A f \in {"today", "prediction", "pb"} :
          /\ \E i \in 1..Len(mle_args) : mle_args[i][f] = 0
          /\ \E i \in 1..Len(mle_args) : mle_args[i][f] = 1
    /\ \E i \in 1..Len(mle_args) : \E v \in GatedValues :
          /\ mle_args[i].today = 1
          /\ predchoice(x, mle_args[i]) # NaN
          /\ predchoice(MovedTo(x, "beta", v), mle_args[i]) # NaN
          /\ predchoice(MovedTo(x, "beta", v), mle_args[i])
                # predchoice(x, mle_args[i])

====
